---------------------------- MODULE Spec2Model ----------------------------
(***************************************************************************)
(* Model of nixops_aws/resources/ebs_volume.py: the EBSVolumeState         *)
(* reconciler (create / check / destroy) of one EBS volume, its persisted  *)
(* record, its cached provider connections and the provider's volumes.     *)
(***************************************************************************)
EXTENDS Integers, Sequences, FiniteSets, TLC

\* ------------------------------------------------------------------ values
\* Python's None for string attributes and for integer attributes.
NONE == "none"
NoneInt == -1

\* nixops.resources.ResourceState lifecycle markers used by this resource.
MISSING == "MISSING"
STARTING == "STARTING"
UP == "UP"

\* ------------------------------------------------------------------ bounds
\* Number of create-volume calls the provider serves in one behaviour.
MaxCreated == 2

Regions == {"r1", "r2"}
\* Volume the operator created by hand, offered for adoption.
ExtVolId == "vol-x"
ExtVol == [VolumeType |-> "io1", Iops |-> 200, Size |-> 20,
           AvailabilityZone |-> "za", region |-> "r1"]
\* What the provider provisions for an IOPS-provisioned volume whose creation
\* request names no iops.
Baseline == [Iops |-> 100]
SnapId == "snap-1"
\* What the provider reports for SnapId.
Snapshot == [volume_size |-> 50]

VolName(n) == IF n = 1 THEN "vol-1" ELSE IF n = 2 THEN "vol-2"
              ELSE IF n = 3 THEN "vol-3" ELSE "vol-4"
CreatedIds == {VolName(n) : n \in 1..MaxCreated}
VolIds == {ExtVolId} \cup CreatedIds

\* Definitions (EbsVolumeOptions) the orchestrator may hand to create: a base
\* Definition that creates a volume, with each attribute changed in turn, and
\* Definitions that adopt ExtVolId.
BaseDefn == [region |-> "r1", zone |-> "za", size |-> 20, snapshot |-> "",
             volumeType |-> "io1", iops |-> 200, volumeId |-> "",
             accessKeyId |-> "AK1"]
AdoptDefn == [BaseDefn EXCEPT !.volumeId = ExtVolId]
Defns ==
  { BaseDefn,
    [BaseDefn EXCEPT !.region = "r2"],
    [BaseDefn EXCEPT !.zone = "zb"],
    [BaseDefn EXCEPT !.zone = NONE],
    [BaseDefn EXCEPT !.size = 0, !.snapshot = SnapId],
    [BaseDefn EXCEPT !.volumeType = "gp2", !.iops = 0],
    [BaseDefn EXCEPT !.iops = 0],
    [BaseDefn EXCEPT !.accessKeyId = ""],
    AdoptDefn,
    [AdoptDefn EXCEPT !.region = "r2"],
    [AdoptDefn EXCEPT !.zone = NONE],
    [AdoptDefn EXCEPT !.iops = 0],
    [AdoptDefn EXCEPT !.size = 0, !.snapshot = SnapId],
    [AdoptDefn EXCEPT !.accessKeyId = ""] }
\* What nixops_aws.ec2_utils.get_access_key_id() finds in the environment.
EnvKeys == {NONE, "AK2"}

\* Where a call of create may be cut short: the process dies after
\* create_volume returned ("crash") or inside the transaction ("commit"), or
\* the provider fails the tagging call or the wait.
CreateFaults == {"none", "crash", "commit", "tags", "wait"}
CheckFaults == {"none", "lookup"}
DestroyFaults == {"none", "lookup", "delete"}

\* ------------------------------------------------------------------ state
VARIABLES
  rec,         \* the persisted attributes of EBSVolumeState
  conn,        \* self._conn: region of the cached boto connection, or NONE
  conn_boto3,  \* self._conn_boto3: region of the cached boto3 client, or NONE
  volumes,     \* provider: volume id -> region it lives in, or NONE
  nextId,      \* provider: number of the next volume id it assigns
  pc,          \* "idle" | "returned": the orchestrator's position
  last         \* the call that just returned: inputs, pre-state, outcome

vars == <<rec, conn, conn_boto3, volumes, nextId, pc, last>>

Truthy(x) == x \notin {"", NONE}
PyOr(a, b) == IF Truthy(a) THEN a ELSE b

NoCall == [op |-> "none"]

InitRec == [state |-> MISSING, access_key_id |-> NONE, region |-> NONE,
            zone |-> NONE, volume_id |-> NONE, size |-> NoneInt,
            iops |-> NoneInt, volume_type |-> NONE]

Init ==
  /\ rec = InitRec
  /\ conn = NONE
  /\ conn_boto3 = NONE
  /\ volumes = [v \in VolIds |-> IF v = ExtVolId THEN ExtVol.region ELSE NONE]
  /\ nextId = 1
  /\ pc = "idle"
  /\ last = NoCall

\* ------------------------------------------------- one handler invocation
\* A handler runs on a record m: the reconciler's and the provider's state,
\* the provider calls issued so far, and the outcome ("running" until the
\* handler returns or raises).  fired tells whether the injected fault f was
\* met on the path taken.
\* volume is the Volume object create_volume returned in this call, if any.
NoVolume == [id |-> NONE, iops |-> NoneInt]
Start == [rec |-> rec, conn |-> conn, conn_boto3 |-> conn_boto3,
          volumes |-> volumes, nextId |-> nextId, calls |-> <<>>,
          result |-> "running", fired |-> FALSE, volume |-> NoVolume]

Running(m) == m.result = "running"
Raise(m, err) == [m EXCEPT !.result = err]
Fault(m, err) == [m EXCEPT !.result = err, !.fired = TRUE]
Call(m, name) == [m EXCEPT !.calls = Append(@, name)]
Count(calls, name) == Cardinality({i \in DOMAIN calls : calls[i] = name})

\* nixops_aws.ec2_utils.connect / connect_ec2_boto3: a connection is known by
\* the region it talks to; no region, no connection.
ec2_utils_connect(region) == IF region \in Regions THEN region ELSE "invalid"

\* A volume is visible through a connection iff it lives in that region.
Visible(m, c, volume_id) ==
  /\ volume_id \in VolIds
  /\ c # NONE
  /\ m.volumes[volume_id] = c

\* nixops_aws.ec2_utils.get_volume_by_id: "found", "missing" (None) or "error".
get_volume_by_id(m, c, volume_id, f) ==
  IF f = "lookup" THEN "error"
  ELSE IF Visible(m, c, volume_id) THEN "found" ELSE "missing"

\* describe_volumes(VolumeIds=[id])["Volumes"][0] of the adoptable volume.
DescribeVolume(volume_id) == ExtVol

exists(r) == r.state # MISSING

connect(m, region) ==
  IF m.conn # NONE THEN m
  ELSE IF ec2_utils_connect(region) = "invalid" THEN Raise(m, "provider_error")
  ELSE [m EXCEPT !.conn = ec2_utils_connect(region)]

connect_boto3(m, region) ==
  IF m.conn_boto3 # NONE THEN m
  ELSE IF ec2_utils_connect(region) = "invalid" THEN Raise(m, "provider_error")
  ELSE [m EXCEPT !.conn_boto3 = ec2_utils_connect(region)]

\* The assignments without the transaction: an interruption after the first
\* one leaves the new state stored alone.
Transaction_none(old, new, interrupted) ==
  IF interrupted THEN [old EXCEPT !.state = new.state] ELSE new

\* "with self.depl._db:": the assignments inside commit together; if the
\* block is left by a crash, none of them is stored.
Transaction(old, new, interrupted) == IF interrupted THEN old ELSE new

\* _get_vol taking the zone from the Definition instead of the provider.
get_vol_config_zone(m, config, f) ==
  LET m1 == connect_boto3(m, config.region)
      m2 == Call(m1, "describe_volumes")
      vol == DescribeVolume(config.volumeId)
      iops == IF vol.VolumeType = "io1" \/ vol.VolumeType = "io2"
              THEN vol.Iops ELSE config.iops
      new == [m2.rec EXCEPT !.state = STARTING,
                            !.region = config.region,
                            !.zone = config.zone,
                            !.size = vol.Size,
                            !.volume_id = config.volumeId,
                            !.iops = iops,
                            !.volume_type = vol.VolumeType]
  IN IF ~Running(m1) THEN m1
     ELSE IF ~Visible(m2, m2.conn_boto3, config.volumeId)
       THEN Raise(m2, "provider_error")
     ELSE IF f = "commit"
       THEN Fault([m2 EXCEPT !.rec = Transaction(m2.rec, new, TRUE)], "crash")
     ELSE Call([m2 EXCEPT !.rec = Transaction(m2.rec, new, FALSE)], "persist")

\* _get_vol taking the iops from the Definition whatever the volume type.
get_vol_config_iops(m, config, f) ==
  LET m1 == connect_boto3(m, config.region)
      m2 == Call(m1, "describe_volumes")
      vol == DescribeVolume(config.volumeId)
      new == [m2.rec EXCEPT !.state = STARTING,
                            !.region = config.region,
                            !.zone = vol.AvailabilityZone,
                            !.size = vol.Size,
                            !.volume_id = config.volumeId,
                            !.iops = config.iops,
                            !.volume_type = vol.VolumeType]
  IN IF ~Running(m1) THEN m1
     ELSE IF ~Visible(m2, m2.conn_boto3, config.volumeId)
       THEN Raise(m2, "provider_error")
     ELSE IF f = "commit"
       THEN Fault([m2 EXCEPT !.rec = Transaction(m2.rec, new, TRUE)], "crash")
     ELSE Call([m2 EXCEPT !.rec = Transaction(m2.rec, new, FALSE)], "persist")

\* Lines 84-102.
get_vol(m, config, f) ==
  LET m1 == connect_boto3(m, config.region)
      m2 == Call(m1, "describe_volumes")
      vol == DescribeVolume(config.volumeId)
      iops == IF vol.VolumeType = "io1" \/ vol.VolumeType = "io2"
              THEN vol.Iops ELSE config.iops
      new == [m2.rec EXCEPT !.state = STARTING,
                            !.region = config.region,
                            !.zone = vol.AvailabilityZone,
                            !.size = vol.Size,
                            !.volume_id = config.volumeId,
                            !.iops = iops,
                            !.volume_type = vol.VolumeType]
  IN IF ~Running(m1) THEN m1
     ELSE IF ~Visible(m2, m2.conn_boto3, config.volumeId)
       THEN Raise(m2, "provider_error")
     ELSE IF f = "commit"
       THEN Fault([m2 EXCEPT !.rec = Transaction(m2.rec, new, TRUE)], "crash")
     ELSE Call([m2 EXCEPT !.rec = Transaction(m2.rec, new, FALSE)], "persist")

\* ------------------------------------------------------------------ create
\* Lines 106-112: the credential is stored, then tested.
create_credentials(m, defn, env) ==
  LET key == PyOr(defn.accessKeyId, env)
      m1 == [m EXCEPT !.rec.access_key_id = key]
  IN IF ~Truthy(key) THEN Raise(m1, "credential_error") ELSE m1

\* create_validate with "and" for "or" in line 115.
create_validate_and(m, defn) ==
  IF ~Running(m) \/ ~exists(m.rec) THEN m
  ELSE IF m.rec.region # defn.region /\ m.rec.zone # defn.zone
    THEN Raise(m, "immutable_region_zone")
  ELSE IF defn.size # 0 /\ m.rec.size # defn.size
    THEN Raise(m, "immutable_size")
  ELSE IF m.rec.volume_type # NONE /\ defn.volumeType # m.rec.volume_type
    THEN Raise(m, "immutable_type")
  ELSE IF defn.iops # m.rec.iops
    THEN Raise(m, "immutable_iops")
  ELSE m

\* create_validate without the "size != 0" exemption of line 120.
create_validate_size0(m, defn) ==
  IF ~Running(m) \/ ~exists(m.rec) THEN m
  ELSE IF m.rec.region # defn.region \/ m.rec.zone # defn.zone
    THEN Raise(m, "immutable_region_zone")
  ELSE IF m.rec.size # defn.size
    THEN Raise(m, "immutable_size")
  ELSE IF m.rec.volume_type # NONE /\ defn.volumeType # m.rec.volume_type
    THEN Raise(m, "immutable_type")
  ELSE IF defn.iops # m.rec.iops
    THEN Raise(m, "immutable_iops")
  ELSE m

\* Lines 114-136: the immutable attributes of an existing resource.
create_validate(m, defn) ==
  IF ~Running(m) \/ ~exists(m.rec) THEN m
  ELSE IF m.rec.region # defn.region \/ m.rec.zone # defn.zone
    THEN Raise(m, "immutable_region_zone")
  ELSE IF defn.size # 0 /\ m.rec.size # defn.size
    THEN Raise(m, "immutable_size")
  ELSE IF m.rec.volume_type # NONE /\ defn.volumeType # m.rec.volume_type
    THEN Raise(m, "immutable_type")
  ELSE IF defn.iops # m.rec.iops
    THEN Raise(m, "immutable_iops")
  ELSE m

\* Lines 145-150: a size of 0 with a snapshot is replaced by the snapshot's size.
create_size(m, defn) ==
  IF defn.size = 0 /\ defn.snapshot # ""
  THEN LET m1 == connect(m, defn.region)
           m2 == Call(m1, "get_all_snapshots")
       IN IF ~Running(m1) THEN [m |-> m1, size |-> defn.size]
          ELSE [m |-> m2, size |-> Snapshot.volume_size]
  ELSE [m |-> m, size |-> defn.size]

\* The Volume object the provider answers create_volume with: the provider
\* is authoritative for the iops of an IOPS-provisioned type and provisions
\* its baseline when the request names none.
CreatedVolume(id, volume_type, iops) ==
  [id |-> id,
   iops |-> IF volume_type \in {"io1", "io2"} /\ iops <= 0
            THEN Baseline.Iops ELSE iops]

\* Lines 168-174: the provider assigns the next id; the volume lives in the
\* region of the connection the call went through.
create_volume(m, defn) ==
  LET m1 == connect(m, defn.region)
      m2 == Call(m1, "create_volume")
      id == VolName(m2.nextId)
  IN IF ~Running(m1) THEN m1
     ELSE [m2 EXCEPT !.volumes = [v \in DOMAIN @ \cup {id} |->
                                    IF v = id THEN m2.conn ELSE @[v]],
                     !.nextId = @ + 1,
                     !.volume = CreatedVolume(id, defn.volumeType, defn.iops)]

\* create_new without line 150: the record keeps the Definition's size.
create_new_defn_size(m, defn, f) ==
  LET s == create_size(m, defn)
      m1 == s.m
      m2 == create_volume(m1, defn)
      id == VolName(m1.nextId)
      new == [m2.rec EXCEPT !.state = STARTING,
                            !.region = defn.region,
                            !.zone = defn.zone,
                            !.size = defn.size,
                            !.volume_id = id,
                            !.iops = defn.iops,
                            !.volume_type = defn.volumeType]
  IN IF ~Running(m1) THEN m1
     ELSE IF defn.zone = NONE THEN Raise(m1, "config_error")
     ELSE IF ~Running(m2) THEN m2
     ELSE IF f = "crash" THEN Fault(m2, "crash")
     ELSE IF f = "commit"
       THEN Fault([m2 EXCEPT !.rec = Transaction(m2.rec, new, TRUE)], "crash")
     ELSE Call([m2 EXCEPT !.rec = Transaction(m2.rec, new, FALSE)], "persist")

\* create_new that tags the new volume before the transaction of lines
\* 179-186.
create_new_tag_first(m, defn, f) ==
  LET s == create_size(m, defn)
      m1 == s.m
      m2 == create_volume(m1, defn)
      id == VolName(m1.nextId)
      t == Call(m2, "update_tags")
      new == [m2.rec EXCEPT !.state = STARTING,
                            !.region = defn.region,
                            !.zone = defn.zone,
                            !.size = s.size,
                            !.volume_id = id,
                            !.iops = defn.iops,
                            !.volume_type = defn.volumeType]
  IN IF ~Running(m1) THEN m1
     ELSE IF defn.zone = NONE THEN Raise(m1, "config_error")
     ELSE IF ~Running(m2) THEN m2
     ELSE IF f = "crash" THEN Fault(m2, "crash")
     ELSE IF f = "commit"
       THEN Fault([m2 EXCEPT !.rec = Transaction(m2.rec, new, TRUE)], "crash")
     ELSE IF ~Running(t) THEN t
     ELSE Call([t EXCEPT !.rec = Transaction(m2.rec, new, FALSE)], "persist")

\* create_new without the test of lines 163-166.
create_new_no_zone_test(m, defn, f) ==
  LET s == create_size(m, defn)
      m1 == s.m
      m2 == create_volume(m1, defn)
      id == VolName(m1.nextId)
      new == [m2.rec EXCEPT !.state = STARTING,
                            !.region = defn.region,
                            !.zone = defn.zone,
                            !.size = s.size,
                            !.volume_id = id,
                            !.iops = defn.iops,
                            !.volume_type = defn.volumeType]
  IN IF ~Running(m1) THEN m1
     ELSE IF ~Running(m2) THEN m2
     ELSE IF f = "crash" THEN Fault(m2, "crash")
     ELSE IF f = "commit"
       THEN Fault([m2 EXCEPT !.rec = Transaction(m2.rec, new, TRUE)], "crash")
     ELSE Call([m2 EXCEPT !.rec = Transaction(m2.rec, new, FALSE)], "persist")

\* Lines 144-188: the creation path.
create_new(m, defn, f) ==
  LET s == create_size(m, defn)
      m1 == s.m
      m2 == create_volume(m1, defn)
      id == VolName(m1.nextId)
      new == [m2.rec EXCEPT !.state = STARTING,
                            !.region = defn.region,
                            !.zone = defn.zone,
                            !.size = s.size,
                            !.volume_id = id,
                            !.iops = defn.iops,
                            !.volume_type = defn.volumeType]
  IN IF ~Running(m1) THEN m1
     ELSE IF defn.zone = NONE THEN Raise(m1, "config_error")
     ELSE IF ~Running(m2) THEN m2
     ELSE IF f = "crash" THEN Fault(m2, "crash")
     ELSE IF f = "commit"
       THEN Fault([m2 EXCEPT !.rec = Transaction(m2.rec, new, TRUE)], "crash")
     ELSE Call([m2 EXCEPT !.rec = Transaction(m2.rec, new, FALSE)], "persist")

\* Lines 138-188.
create_missing(m, defn, f) ==
  IF ~Running(m) \/ m.rec.state # MISSING THEN m
  ELSE IF Truthy(defn.volumeId) THEN get_vol(m, defn, f)
  ELSE create_new(m, defn, f)

\* ec2_common.update_tags: one tagging call on the volume.
update_tags(m, volume_id, f) ==
  LET m1 == Call(m, "update_tags")
  IN IF f = "tags" THEN Fault(m1, "provider_error") ELSE m1

\* ec2_utils.wait_for_volume_available: polls the volume through the given
\* connection until it is available or in-use; gives up with an error.
wait_for_volume_available(m, c, volume_id, f) ==
  LET m1 == Call(m, "wait")
  IN IF f = "wait" THEN Fault(m1, "provider_error")
     ELSE IF ~Visible(m1, c, volume_id) THEN Raise(m1, "provider_error")
     ELSE m1

\* Lines 190-202.
create_starting(m, defn, check, f) ==
  IF ~Running(m) \/ ~(m.rec.state = STARTING \/ check) THEN m
  ELSE LET m1 == connect(m, m.rec.region)
           m2 == update_tags(m1, m1.rec.volume_id, f)
           m3 == wait_for_volume_available(m2, m2.conn, m2.rec.volume_id, f)
       IN IF ~Running(m1) THEN m1
          ELSE IF ~Running(m2) THEN m2
          ELSE IF ~Running(m3) THEN m3
          ELSE [m3 EXCEPT !.rec.state = UP]

Return(m, value) == IF Running(m) THEN [m EXCEPT !.result = value] ELSE m

\* Lines 106-188: create up to the test of line 190.
create_prefix(m, defn, env, f) ==
  create_missing(create_validate(create_credentials(m, defn, env), defn),
                 defn, f)

create(m, defn, check, env, f) ==
  Return(create_starting(create_prefix(m, defn, env, f), defn, check, f), "ok")

\* ------------------------------------------------------------------- check
\* check that leaves the state alone when the volume is gone.
check_no_transition(m, f) ==
  LET m1 == connect(m, m.rec.region)
      m2 == Call(m1, "get_volume")
      volume == get_volume_by_id(m2, m2.conn, m2.rec.volume_id, f)
  IN IF ~Running(m1) THEN m1
     ELSE IF volume = "error" THEN Fault(m2, "provider_error")
     ELSE Return(m2, "ok")

\* Lines 204-209.
check(m, f) ==
  LET m1 == connect(m, m.rec.region)
      m2 == Call(m1, "get_volume")
      volume == get_volume_by_id(m2, m2.conn, m2.rec.volume_id, f)
  IN IF ~Running(m1) THEN m1
     ELSE IF volume = "error" THEN Fault(m2, "provider_error")
     ELSE IF volume = "missing"
       THEN Return([m2 EXCEPT !.rec.state = MISSING], "ok")
     ELSE Return(m2, "ok")

\* ----------------------------------------------------------------- destroy
\* volume.delete() under self._retry: the volume is gone after it, or the
\* retries are used up.
delete(m, volume_id, f) ==
  LET m1 == Call(m, "delete")
  IN IF f = "delete" THEN Fault(m1, "provider_error")
     ELSE [m1 EXCEPT !.volumes[volume_id] = NONE]

\* destroy deleting without regard to the answer to the prompt.
destroy_unconfirmed(m, wipe, confirm, f) ==
  LET m1 == connect(m, m.rec.region)
      m2 == Call(m1, "get_volume")
      volume == get_volume_by_id(m2, m2.conn, m2.rec.volume_id, f)
      m3 == Call(m2, "confirm")
  IN IF ~exists(m.rec) THEN Return(m, "true")
     ELSE IF ~Running(m1) THEN m1
     ELSE IF volume = "error" THEN Fault(m2, "provider_error")
     ELSE IF volume = "missing" THEN Return(m2, "true")
     ELSE Return(delete(m3, m3.rec.volume_id, f), "true")

\* destroy without the test of line 212.
destroy_no_exists_test(m, wipe, confirm, f) ==
  LET m1 == connect(m, m.rec.region)
      m2 == Call(m1, "get_volume")
      volume == get_volume_by_id(m2, m2.conn, m2.rec.volume_id, f)
      m3 == Call(m2, "confirm")
  IN IF ~Running(m1) THEN m1
     ELSE IF volume = "error" THEN Fault(m2, "provider_error")
     ELSE IF volume = "missing" THEN Return(m2, "true")
     ELSE IF ~confirm THEN Return(m3, "false")
     ELSE Return(delete(m3, m3.rec.volume_id, f), "true")

\* destroy that marks the resource MISSING once the volume is deleted.
destroy_marks_missing(m, wipe, confirm, f) ==
  LET m1 == connect(m, m.rec.region)
      m2 == Call(m1, "get_volume")
      volume == get_volume_by_id(m2, m2.conn, m2.rec.volume_id, f)
      m3 == Call(m2, "confirm")
      m4 == delete(m3, m3.rec.volume_id, f)
  IN IF ~exists(m.rec) THEN Return(m, "true")
     ELSE IF ~Running(m1) THEN m1
     ELSE IF volume = "error" THEN Fault(m2, "provider_error")
     ELSE IF volume = "missing" THEN Return(m2, "true")
     ELSE IF ~confirm THEN Return(m3, "false")
     ELSE IF ~Running(m4) THEN m4
     ELSE Return([m4 EXCEPT !.rec.state = MISSING], "true")

\* destroy without the test of line 221.
destroy_no_volume_test(m, wipe, confirm, f) ==
  LET m1 == connect(m, m.rec.region)
      m2 == Call(m1, "get_volume")
      volume == get_volume_by_id(m2, m2.conn, m2.rec.volume_id, f)
      m3 == Call(m2, "confirm")
  IN IF ~exists(m.rec) THEN Return(m, "true")
     ELSE IF ~Running(m1) THEN m1
     ELSE IF volume = "error" THEN Fault(m2, "provider_error")
     ELSE IF ~confirm THEN Return(m3, "false")
     ELSE Return(delete(m3, m3.rec.volume_id, f), "true")

\* Lines 211-229.
destroy(m, wipe, confirm, f) ==
  LET m1 == connect(m, m.rec.region)
      m2 == Call(m1, "get_volume")
      volume == get_volume_by_id(m2, m2.conn, m2.rec.volume_id, f)
      m3 == Call(m2, "confirm")
  IN IF ~exists(m.rec) THEN Return(m, "true")
     ELSE IF ~Running(m1) THEN m1
     ELSE IF volume = "error" THEN Fault(m2, "provider_error")
     ELSE IF volume = "missing" THEN Return(m2, "true")
     ELSE IF ~confirm THEN Return(m3, "false")
     ELSE Return(delete(m3, m3.rec.volume_id, f), "true")

\* ----------------------------------------------------------------- actions
\* What a handler leaves behind.  A crash ends the process: the cached
\* connections die with it, the persisted record and the provider stay.
Apply(m) ==
  /\ m.nextId <= MaxCreated + 1
  /\ rec' = m.rec
  /\ conn' = IF m.result = "crash" THEN NONE ELSE m.conn
  /\ conn_boto3' = IF m.result = "crash" THEN NONE ELSE m.conn_boto3
  /\ volumes' = m.volumes
  /\ nextId' = m.nextId
  /\ pc' = "returned"

Before == [rec |-> rec, conn |-> conn, conn_boto3 |-> conn_boto3,
           volumes |-> volumes, nextId |-> nextId]

\* An input the handler does not read on the path it takes is left at its
\* default: the environment is consulted only when the Definition names no
\* key (line 107), check only when the state is not STARTING (line 190), the
\* confirmation only when the volume was found (line 223).
\* create(defn, ...) called by the orchestrator.  again tells that it repeats
\* the call that just returned, with the same Definition; prev is that call's
\* outcome.
CreateCall(defn, again, prev) ==
  \E env \in EnvKeys, f \in CreateFaults :
    /\ Truthy(defn.accessKeyId) => env = NONE
    /\ LET p == create_prefix(Start, defn, env, f)
       IN \E chk \in BOOLEAN :
            LET m == Return(create_starting(p, defn, chk, f), "ok")
            IN /\ (~Running(p) \/ p.rec.state = STARTING) => chk = FALSE
               /\ f = "none" \/ m.fired
               /\ Apply(m)
               /\ last' = [op |-> "create", defn |-> defn, check |-> chk,
                           env |-> env, fault |-> f, before |-> Before,
                           result |-> m.result, calls |-> m.calls,
                           again |-> again, prev |-> prev,
                           volume |-> m.volume]

Create ==
  /\ pc = "idle"
  /\ \E defn \in Defns : CreateCall(defn, FALSE, "none")

\* The orchestrator repeats, with the Definition unchanged, the create call
\* that recorded the volume.
Redeploy ==
  /\ pc = "returned"
  /\ last.op = "create"
  /\ ~last.again
  /\ Count(last.calls, "persist") = 1
  /\ CreateCall(last.defn, TRUE, last.result)

Check ==
  /\ pc = "idle"
  /\ \E f \in CheckFaults :
       LET m == check(Start, f)
       IN /\ f = "none" \/ m.fired
          /\ Apply(m)
          /\ last' = [op |-> "check", fault |-> f, before |-> Before,
                      result |-> m.result, calls |-> m.calls]

Destroy ==
  /\ pc = "idle"
  /\ \E wipe \in BOOLEAN, confirm \in BOOLEAN, f \in DestroyFaults :
       LET m == destroy(Start, wipe, confirm, f)
       IN /\ ~exists(rec) => ~wipe
          /\ "confirm" \notin {m.calls[i] : i \in DOMAIN m.calls} => ~confirm
          /\ f = "none" \/ m.fired
          /\ Apply(m)
          /\ last' = [op |-> "destroy", wipe |-> wipe, confirm |-> confirm,
                      fault |-> f, before |-> Before,
                      result |-> m.result, calls |-> m.calls]

\* The orchestrator takes the handler's outcome and goes on.
NextCall ==
  /\ pc = "returned"
  /\ pc' = "idle"
  /\ last' = NoCall
  /\ UNCHANGED <<rec, conn, conn_boto3, volumes, nextId>>

\* Lines 52-55: a new process builds the reconciler from the persisted
\* record, with no connection yet.
Restart ==
  /\ pc = "idle"
  /\ conn # NONE \/ conn_boto3 # NONE
  /\ conn' = NONE
  /\ conn_boto3' = NONE
  /\ UNCHANGED <<rec, volumes, nextId, pc, last>>

\* Somebody deletes a volume behind the reconciler's back.
ExternalDelete ==
  /\ pc = "idle"
  /\ \E v \in VolIds :
       /\ volumes[v] # NONE
       /\ volumes' = [volumes EXCEPT ![v] = NONE]
  /\ UNCHANGED <<rec, conn, conn_boto3, nextId, pc, last>>

Next == Create \/ Redeploy \/ Check \/ Destroy \/ NextCall \/ Restart \/ ExternalDelete

Spec == Init /\ [][Next]_vars

\* ------------------------------------------------------------------ claims
\* The call that just returned.
IsCreate == pc = "returned" /\ last.op = "create"
IsCheck == pc = "returned" /\ last.op = "check"
IsDestroy == pc = "returned" /\ last.op = "destroy"
\* Its credential resolved: the Definition's key or the environment's.
Resolves == Truthy(PyOr(last.defn.accessKeyId, last.env))
Issued(name) == Count(last.calls, name)

\* C1: create on a MISSING resource with a Definition that has no volumeId
\* and has a zone, with a resolvable credential and no provider failure, ends
\* UP with the id of its single create-volume call and with the Definition's
\* region, zone and volumeType; size is the Definition's, or the snapshot's
\* when the Definition's size is 0 and a snapshot is given.
C1_CreateFromMissing ==
  (/\ IsCreate
   /\ last.before.rec.state = MISSING
   /\ ~Truthy(last.defn.volumeId)
   /\ last.defn.zone # NONE
   /\ Resolves
   /\ last.fault = "none")
  => /\ last.result = "ok"
     /\ rec.state = UP
     /\ Issued("create_volume") = 1
     /\ rec.volume_id = VolName(last.before.nextId)
     /\ Truthy(rec.volume_id)
     /\ volumes[rec.volume_id] # NONE
     /\ rec.region = last.defn.region
     /\ rec.zone = last.defn.zone
     /\ rec.volume_type = last.defn.volumeType
     /\ rec.size = IF last.defn.size = 0 /\ last.defn.snapshot # ""
                   THEN Snapshot.volume_size ELSE last.defn.size

C1_Witness ==
  /\ IsCreate
  /\ last.before.rec.state = MISSING
  /\ ~Truthy(last.defn.volumeId)
  /\ last.defn.size = 0
  /\ last.defn.snapshot = SnapId
  /\ last.result = "ok"
  /\ rec.state = UP
  /\ rec.size = Snapshot.volume_size

\* C2: a second create with the unchanged Definition, on the resource the
\* first create brought to UP, is not an error and issues no provider call
\* besides tag reconciliation and the wait that follows it (no create-volume,
\* no delete), for every Definition the first create accepted.
C2_SecondCreateIdempotent ==
  (/\ IsCreate
   /\ last.again
   /\ last.prev = "ok"
   /\ last.before.rec.state = UP
   /\ Resolves
   /\ last.fault = "none")
  => /\ last.result = "ok"
     /\ Issued("create_volume") = 0
     /\ Issued("delete") = 0
     /\ \A i \in DOMAIN last.calls : last.calls[i] \in {"update_tags", "wait"}

\* C3: create with a Definition whose zone differs from the stored zone of
\* an existing resource fails; the failure is the immutable-attribute error
\* whenever a credential resolves, and the missing-credential error of line
\* 110 otherwise.
C3_ZoneChangeFails ==
  (/\ IsCreate
   /\ exists(last.before.rec)
   /\ last.before.rec.zone # last.defn.zone)
  => /\ last.result = IF Resolves THEN "immutable_region_zone"
                      ELSE "credential_error"
     /\ last.calls = <<>>

\* C3 as stated: the failure is always the immutable-attribute error.
C3_ZoneChangeAlwaysImmutableError ==
  (/\ IsCreate
   /\ exists(last.before.rec)
   /\ last.before.rec.zone # last.defn.zone)
  => last.result = "immutable_region_zone"

C3_Witness ==
  /\ IsCreate
  /\ last.before.rec.state = UP
  /\ last.before.rec.zone # last.defn.zone
  /\ last.before.rec.region = last.defn.region
  /\ last.before.rec.size = last.defn.size
  /\ last.before.rec.volume_type = last.defn.volumeType
  /\ last.before.rec.iops = last.defn.iops
  /\ last.result = "immutable_region_zone"

\* C4: create on a MISSING resource with a Definition that has volumeId set
\* never issues create-volume, and the record it leaves for the adopted
\* volume has the Definition's volumeId and the zone, size and volumeType
\* the provider's describe call reported.
C4_Adoption ==
  (/\ IsCreate
   /\ last.before.rec.state = MISSING
   /\ Truthy(last.defn.volumeId))
  => /\ Issued("create_volume") = 0
     /\ nextId = last.before.nextId
     /\ last.result = "ok" => rec.state = UP /\ Issued("describe_volumes") = 1
     /\ exists(rec) =>
          /\ rec.volume_id = last.defn.volumeId
          /\ rec.zone = DescribeVolume(last.defn.volumeId).AvailabilityZone
          /\ rec.size = DescribeVolume(last.defn.volumeId).Size
          /\ rec.volume_type = DescribeVolume(last.defn.volumeId).VolumeType

C4_Witness ==
  /\ IsCreate
  /\ last.before.rec.state = MISSING
  /\ last.defn.volumeId = ExtVolId
  /\ last.defn.zone = NONE
  /\ last.result = "ok"
  /\ rec.state = UP
  /\ rec.zone = ExtVol.AvailabilityZone

\* C5: when the confirmation prompt is declined, destroy returns false,
\* issues no delete call, and the provider still has the volume.
C5_DestroyDeclined ==
  (/\ IsDestroy
   /\ Issued("confirm") = 1
   /\ ~last.confirm)
  => /\ last.result = "false"
     /\ Issued("delete") = 0
     /\ volumes = last.before.volumes
     /\ volumes[rec.volume_id] # NONE
     /\ rec = last.before.rec

C5_Witness ==
  /\ IsDestroy
  /\ exists(last.before.rec)
  /\ Issued("confirm") = 1
  /\ ~last.confirm
  /\ last.result = "false"

\* C6: destroy on a MISSING resource returns true with no provider call, no
\* connection and no confirmation prompt.
C6_DestroyMissing ==
  (/\ IsDestroy
   /\ last.before.rec.state = MISSING)
  => /\ last.result = "true"
     /\ last.calls = <<>>
     /\ conn = last.before.conn
     /\ volumes = last.before.volumes

C6_Witness ==
  /\ IsDestroy
  /\ last.before.rec.state = MISSING
  /\ last.before.rec.volume_id # NONE
  /\ last.before.volumes[last.before.rec.volume_id] # NONE
  /\ last.result = "true"

\* The provider no longer has the volume.
Gone(vs, volume_id) == volume_id \in DOMAIN vs /\ vs[volume_id] = NONE

\* C7: when the volume of an existing resource was deleted out-of-band,
\* check returns without error and sets state to MISSING; the next create
\* with a non-adopting Definition (zone set, credential resolved, no provider
\* failure) issues exactly one create-volume call and ends UP with the newly
\* assigned volumeId.
C7_DriftRecovery ==
  /\ (/\ IsCheck
      /\ exists(last.before.rec)
      /\ Gone(last.before.volumes, last.before.rec.volume_id)
      /\ last.fault = "none")
     => /\ last.result = "ok"
        /\ rec.state = MISSING
  /\ (/\ IsCreate
      /\ last.before.rec.state = MISSING
      /\ Gone(last.before.volumes, last.before.rec.volume_id)
      /\ ~Truthy(last.defn.volumeId)
      /\ last.defn.zone # NONE
      /\ Resolves
      /\ last.fault = "none")
     => /\ last.result = "ok"
        /\ Issued("create_volume") = 1
        /\ rec.state = UP
        /\ rec.volume_id = VolName(last.before.nextId)
        /\ rec.volume_id # last.before.rec.volume_id
        /\ ~Gone(volumes, rec.volume_id)

C7_Witness ==
  /\ IsCreate
  /\ last.before.rec.state = MISSING
  /\ last.before.rec.volume_id = VolName(1)
  /\ Gone(last.before.volumes, VolName(1))
  /\ last.result = "ok"
  /\ rec.state = UP
  /\ rec.volume_id = VolName(2)

\* The attributes the transactions of lines 95-102 and 179-186 write.
Fields(r) == <<r.state, r.region, r.zone, r.size, r.volume_id, r.iops,
               r.volume_type>>

\* C8: in every state, also after a crash inside create, state != MISSING
\* implies a non-empty volumeId; a create on a MISSING resource leaves either
\* none of state, region, zone, size, volumeId, iops, volumeType changed, or
\* all of them written by its one transaction.
C8_ExistsHasVolumeId ==
  /\ exists(rec) => Truthy(rec.volume_id) /\ rec.volume_id \in VolIds
  /\ (IsCreate /\ last.before.rec.state = MISSING)
     => \/ Fields(rec) = Fields(last.before.rec)
        \/ /\ Issued("persist") = 1
           /\ rec.state \in {STARTING, UP}
           /\ rec.region = last.defn.region
           /\ Truthy(rec.volume_id)
           /\ rec.zone # NONE
           /\ rec.size # NoneInt
           /\ rec.iops # NoneInt
           /\ rec.volume_type # NONE

C8_Witness ==
  /\ IsCreate
  /\ last.fault = "commit"
  /\ last.result = "crash"
  /\ Issued("create_volume") = 1
  /\ rec.state = MISSING
  /\ rec.volume_id = NONE

\* C9: in every state, state == MISSING implies that no volumeId is stored.
C9_MissingHasNoVolumeId == rec.state = MISSING => rec.volume_id = NONE

\* C10: once the resource exists, no call of create changes the stored
\* accessKeyId.
C10_AccessKeyPinned ==
  (IsCreate /\ exists(last.before.rec))
  => rec.access_key_id = last.before.rec.access_key_id

ImmutableErrors == {"immutable_region_zone", "immutable_size",
                    "immutable_type", "immutable_iops"}

\* The Definition of the call differs from the record in an immutable
\* attribute; a size of 0 does not count.
Mismatch(r, defn) ==
  \/ r.region # defn.region
  \/ r.zone # defn.zone
  \/ r.volume_type # defn.volumeType
  \/ r.iops # defn.iops
  \/ defn.size # 0 /\ r.size # defn.size

\* C11: for an existing resource, create fails with an immutable-attribute
\* error whenever a credential resolves and the Definition's region, zone,
\* volumeType, iops or non-zero size differs from the stored value (without a
\* credential it fails with the missing-credential error); a size of 0 never
\* raises the size error; on either failure no provider call is issued and
\* state, volumeId, region, zone, size, iops and volumeType are unchanged.
C11_ImmutableAttributes ==
  (IsCreate /\ exists(last.before.rec))
  => /\ (Resolves /\ Mismatch(last.before.rec, last.defn))
          => last.result \in ImmutableErrors
     /\ (~Resolves) => last.result = "credential_error"
     /\ last.result = "immutable_size" => last.defn.size # 0
     /\ last.result \in ImmutableErrors => Mismatch(last.before.rec, last.defn)
     /\ last.result \in ImmutableErrors \cup {"credential_error"}
          => /\ last.calls = <<>>
             /\ Fields(rec) = Fields(last.before.rec)
             /\ volumes = last.before.volumes

\* C11 as stated: any such difference gives an immutable-attribute error.
C11_MismatchAlwaysImmutableError ==
  (IsCreate /\ exists(last.before.rec) /\ Mismatch(last.before.rec, last.defn))
  => last.result \in ImmutableErrors

C11_Witness ==
  /\ IsCreate
  /\ last.before.rec.state = UP
  /\ last.before.rec.size = last.defn.size
  /\ last.before.rec.iops # last.defn.iops
  /\ last.before.rec.volume_type = last.defn.volumeType
  /\ last.result = "immutable_iops"
  /\ rec.state = UP

\* C12: in a create that issues the create-volume call, the record
\* {state=STARTING, region, zone, size, volumeId, iops, volumeType} is
\* persisted right after that call returns, before tagging and before the
\* wait: nothing is called between the two, and a create that fails at a later
\* provider call leaves that record behind.
C12_PersistBeforeFurtherCalls ==
  IsCreate
  => /\ \A i \in 1..Len(last.calls) :
          last.calls[i] = "create_volume"
          => /\ i < Len(last.calls) => last.calls[i + 1] = "persist"
             /\ \A j \in 1..i :
                  last.calls[j] \in {"get_all_snapshots", "create_volume"}
     /\ (Issued("create_volume") = 1 /\ Issued("update_tags") = 1)
          => /\ Issued("persist") = 1
             /\ rec.state = IF last.result = "ok" THEN UP ELSE STARTING
             /\ rec.region = last.defn.region
             /\ rec.zone = last.defn.zone
             /\ rec.volume_id = VolName(last.before.nextId)
             /\ rec.iops = last.defn.iops
             /\ rec.volume_type = last.defn.volumeType
             /\ rec.size = IF last.defn.size = 0 THEN Snapshot.volume_size
                           ELSE last.defn.size

C12_Witness ==
  /\ IsCreate
  /\ last.calls = <<"create_volume", "persist", "update_tags">>
  /\ last.result = "provider_error"
  /\ rec.state = STARTING
  /\ rec.volume_id = VolName(last.before.nextId)

\* C13: destroy never modifies the persisted record: whether the resource is
\* MISSING, the volume is already gone, the confirmation is declined, the
\* delete succeeds or a provider call fails, the stored state, volumeId,
\* region, zone, size, iops and volumeType (and the access key) are the same
\* after destroy as before it.
C13_DestroyKeepsRecord ==
  IsDestroy => /\ Fields(rec) = Fields(last.before.rec)
               /\ rec = last.before.rec

C13_Witness ==
  /\ IsDestroy
  /\ last.result = "true"
  /\ Issued("delete") = 1
  /\ ~Gone(last.before.volumes, rec.volume_id)
  /\ Gone(volumes, rec.volume_id)
  /\ rec.state = UP

\* The provider holds the recorded volume in the recorded region.
Reported(vs, r) ==
  /\ r.volume_id \in DOMAIN vs
  /\ vs[r.volume_id] # NONE
  /\ vs[r.volume_id] = r.region

\* C14: check changes at most the state field: volumeId, region, zone, size,
\* iops, volumeType and accessKeyId are unchanged in every case, and when the
\* provider still reports the volume the state is unchanged too (STARTING
\* stays STARTING, UP stays UP).
C14_CheckChangesOnlyState ==
  IsCheck
  => /\ rec = [last.before.rec EXCEPT !.state = rec.state]
     /\ (last.result = "ok" /\ Reported(volumes, last.before.rec))
          => rec.state = last.before.rec.state

IopsProvisioned(volume_type) == volume_type \in {"io1", "io2"}
Adopting == Truthy(last.defn.volumeId)
BroughtUp == IsCreate /\ last.result = "ok" /\ ~exists(last.before.rec)

Resumed ==
  /\ IsCreate
  /\ last.again
  /\ last.before.rec.state = STARTING
  /\ Resolves
  /\ last.fault = "none"

\* C16: create sets state UP only after tagging and the wait have succeeded;
\* a create repeated with the same Definition on a record persisted as
\* STARTING issues no create-volume call, keeps the recorded volumeId, goes on
\* to the wait and ends in UP when the wait succeeds.
C16_ResumeFromStarting ==
  /\ (IsCreate /\ rec.state = UP /\ last.before.rec.state # UP)
       => /\ last.result = "ok"
          /\ Len(last.calls) >= 2
          /\ last.calls[Len(last.calls) - 1] = "update_tags"
          /\ last.calls[Len(last.calls)] = "wait"
  /\ Resumed
       => /\ Issued("create_volume") = 0
          /\ rec.volume_id = last.before.rec.volume_id
          /\ Issued("wait") = 1
          /\ last.result = "ok" => rec.state = UP

\* C17: destroy on an existing resource whose volume the provider no longer
\* holds returns true after the lookup, without prompting for confirmation and
\* without issuing a delete call.
C17_DestroyVolumeGone ==
  (/\ IsDestroy
   /\ exists(last.before.rec)
   /\ Gone(last.before.volumes, last.before.rec.volume_id)
   /\ last.fault = "none")
  => /\ last.result = "true"
     /\ last.calls = <<"get_volume">>
     /\ Issued("confirm") = 0
     /\ Issued("delete") = 0
     /\ volumes = last.before.volumes

C17_Witness ==
  /\ IsDestroy
  /\ last.before.rec.state = UP
  /\ Gone(last.before.volumes, last.before.rec.volume_id)
  /\ last.fault = "none"
  /\ last.result = "true"

\* C18: on the creation path (state MISSING, Definition without volumeId) a
\* Definition with zone unset makes create fail with a configuration error
\* (the missing-zone error when a credential resolves, the missing-credential
\* error otherwise); no create-volume call is issued, the provider holds the
\* volumes it held, and the record stays MISSING with volumeId, region, zone
\* and size (and iops and volumeType) unchanged.
C18_ZoneUnset ==
  (IsCreate /\ ~exists(last.before.rec) /\ ~Adopting /\ last.defn.zone = NONE)
  => /\ last.result = IF Resolves THEN "config_error" ELSE "credential_error"
     /\ Issued("create_volume") = 0
     /\ Issued("persist") = 0
     /\ rec.state = MISSING
     /\ Fields(rec) = Fields(last.before.rec)
     /\ volumes = last.before.volumes
     /\ nextId = last.before.nextId

C18_Witness ==
  /\ IsCreate
  /\ ~Adopting
  /\ last.defn.zone = NONE
  /\ last.result = "config_error"
  /\ rec.state = MISSING
  /\ Fields(rec) = Fields(last.before.rec)

\* C19: every create-volume call issued by create goes to a connection for
\* the Definition's region: the new volume lives in the Definition's region,
\* and the region then persisted in the record is the region the volume was
\* created in, whatever sequence of create, check and destroy came before on
\* the same instance.
C19_CreatedInDefinitionRegion ==
  (IsCreate /\ Issued("create_volume") = 1)
  => /\ volumes[last.volume.id] = last.defn.region
     /\ Issued("persist") = 1 => /\ rec.volume_id = last.volume.id
                                 /\ rec.region = volumes[rec.volume_id]

\* C20: a create for which no credential resolves (neither the Definition's
\* accessKeyId nor the environment gives one) fails with the missing-credential
\* error before any provider call and leaves the whole persisted record as it
\* was, the stored accessKeyId of an existing resource included.
C20_NoCredentialLeavesRecord ==
  (IsCreate /\ ~Resolves)
  => /\ last.result = "credential_error"
     /\ last.calls = <<>>
     /\ volumes = last.before.volumes
     /\ rec = last.before.rec

=============================================================================
